---- MODULE Spec2Model ----
(***************************************************************************)
(* The per-request connection state machine of crequests                   *)
(* (src/crequests/connection.cpp, class conn_impl_t) as a state machine.   *)
(*                                                                         *)
(* The connection object is the record built by conn_impl_t's constructors *)
(* and transformed by its member functions; every member function is an    *)
(* operator from a connection record to a connection record, so that a     *)
(* handler and every call it makes form one atomic step, as on the strand. *)
(* The executor, the sockets, the timers and the server are the            *)
(* environment: they complete pending operations and expire timers.        *)
(*                                                                         *)
(* Bytes on the wire are modelled as tokens [t, v]:                        *)
(*   ST  a status line up to and including its CRLF, v = the status code   *)
(*   HD  the header block up to and including the blank line, v = headers  *)
(*   CH  a chunk-size line including its CRLF, v = the chunk size          *)
(*   NL  the CRLF that ends a chunk's data or the chunked body             *)
(*   B   one body byte                                                     *)
(*   X   a byte that is no part of a well-formed response                  *)
(***************************************************************************)
EXTENDS Integers, Sequences, FiniteSets, TLC

VARIABLES
    state,          \* conn_impl_t::state
    m_is_reused,    \* conn_impl_t::m_is_reused
    request,        \* response.request(): the options of the request
    response,       \* conn_impl_t::response
    stream,         \* conn_impl_t::stream (is it open, has its peer begun
                    \* to answer)
    wire,           \* what the peer has still to send of its answer
    ops,            \* the asynchronous network operations not yet handled
    timeout_timer,  \* conn_impl_t::timeout_timer
    dispose_timer,  \* conn_impl_t::dispose_timer
    promise,        \* conn_impl_t::promise / future
    request_buf,    \* conn_impl_t::request_buf (serialized requests in it)
    response_buf,   \* conn_impl_t::response_buf
    parser,         \* conn_impl_t::parser
    content_length, \* conn_impl_t::content_length
    raw,            \* conn_impl_t::raw
    hist,           \* history: calls counted over the connection's lifetime
    last,           \* history: the step just taken and the calls it made
    auth_in,        \* the string given to auth_t::from_string
    auth,           \* what auth_t::from_string made of it
    auth_out,       \* what auth_t::to_string made of that
    session         \* session_impl_t: its request, its connection, and what
                    \* the last Send did

conn_vars ==
    << state, m_is_reused, request, response, stream, wire, ops, timeout_timer,
       dispose_timer, promise, request_buf, response_buf, parser,
       content_length, raw, hist, last >>

auth_vars ==
    << auth_in, auth, auth_out >>

vars ==
    << conn_vars, auth_vars, session >>

(***************************************************************************)
(* Bounds of the model.                                                    *)
(***************************************************************************)
MaxRedirects ==
    1

MaxBody ==
    1

MaxChunks ==
    1

\* The value content_length holds when the parser reports no declared length.
SizeMax ==
    1000000

\* The longest string given to auth_t::from_string.
MaxStr ==
    5

\* std::string::npos, as a position no string has.
npos ==
    -1

(***************************************************************************)
(* error_code_t                                                            *)
(***************************************************************************)
ErrorStates ==
    { "RESOLVE_ERROR", "CONNECT_ERROR", "HANDSHAKE_ERROR", "WRITE_ERROR",
      "READ_STATUS_ERROR", "READ_STATUS_DATA_ERROR", "READ_HEADERS_ERROR",
      "READ_CONTENT_LENGTH_ERROR", "READ_CHUNK_HEADER_ERROR",
      "READ_CHUNK_DATA_ERROR", "READ_UNTIL_EOF_ERROR", "REDIRECT_EXHAUSTED",
      "REDIRECT_ERROR", "TIMEOUT" }

FinalStates ==
    ErrorStates \cup { "EXPIRED", "SUCCESS" }

ProgressStates ==
    { "INIT", "RESOLVE", "CONNECT", "HANDSHAKE", "WRITE", "READ_STATUS",
      "READ_HEADERS", "READ_CONTENT_LENGTH", "READ_CHUNK_HEADER",
      "READ_CHUNK_DATA", "READ_UNTIL_EOF" }

AllStates ==
    FinalStates \cup ProgressStates

\* The results an asynchronous operation can complete with.
Results ==
    { "ok", "eof", "reset", "other", "aborted" }

RECURSIVE start(_), restart(_)
RECURSIVE read_chunk_header(_), on_read_chunk_header(_, _)
RECURSIVE on_read_chunk_data(_, _)
RECURSIVE ParserRun(_, _)

is_redirect_code(code) ==
    code = 301 \/ code = 302 \/ code = 303

(***************************************************************************)
(* Tokens and the responses a server can send.                             *)
(***************************************************************************)
Tok(t, v) ==
    [t |-> t, v |-> v]

NoHeaders ==
    [cl |-> -1, chunked |-> FALSE, loc |-> FALSE, close |-> FALSE]

Bytes(n) ==
    [i \in 1..n |-> Tok("B", 0)]

RECURSIVE ChunkedBody(_)
ChunkedBody(sizes) ==
    IF sizes = << >>
    THEN << Tok("CH", 0), Tok("NL", 0) >>
    ELSE << Tok("CH", Head(sizes)) >> \o Bytes(Head(sizes)) \o << Tok("NL", 0) >>
         \o ChunkedBody(Tail(sizes))

ChunkLists ==
    UNION { [1..k -> 1..MaxBody] : k \in 0..MaxChunks }

StatusCodes ==
    { 200, 301 }

\* Well-formed responses: a status line, a header block and a body framed by
\* Content-Length, by chunks, or by the end of the stream.
\* The Location header is looked at in redirect responses only.
Locations(code) ==
    IF is_redirect_code(code) THEN BOOLEAN ELSE { FALSE }

ContentLengthResponses ==
    UNION { { << Tok("ST", code),
                 Tok("HD", [cl |-> n, chunked |-> FALSE, loc |-> loc,
                            close |-> cls]) >> \o Bytes(n) :
                n \in 0..MaxBody, loc \in Locations(code), cls \in BOOLEAN } :
            code \in StatusCodes }

ChunkedResponses ==
    UNION { { << Tok("ST", code),
                 Tok("HD", [cl |-> -1, chunked |-> TRUE, loc |-> loc,
                            close |-> FALSE]) >> \o ChunkedBody(sizes) :
                sizes \in ChunkLists, loc \in Locations(code) } :
            code \in StatusCodes }

EofResponses ==
    UNION { { << Tok("ST", code),
                 Tok("HD", [cl |-> -1, chunked |-> FALSE, loc |-> loc,
                            close |-> FALSE]) >> \o Bytes(n) :
                n \in 0..MaxBody, loc \in Locations(code) } :
            code \in StatusCodes }

MalformedResponses ==
    { << Tok("X", 0), Tok("NL", 0) >>,
      << Tok("ST", 200), Tok("X", 0), Tok("HD", NoHeaders) >>,
      << Tok("ST", 200),
         Tok("HD", [cl |-> -1, chunked |-> TRUE, loc |-> FALSE, close |-> FALSE]),
         Tok("X", 0), Tok("NL", 0) >> }

\* A response that declares both a Content-Length and the chunked transfer
\* encoding, and frames its (empty) body by chunks.
AmbiguousResponses ==
    { << Tok("ST", 200),
         Tok("HD", [cl |-> 1, chunked |-> TRUE, loc |-> FALSE, close |-> FALSE]) >>
      \o ChunkedBody(<< >>) }

ServerResponses ==
    ContentLengthResponses \cup ChunkedResponses \cup EofResponses
    \cup MalformedResponses \cup AmbiguousResponses

(***************************************************************************)
(* The executor's objects: pending operations and timers.                  *)
(***************************************************************************)
\* An asynchronous operation started on the resolver or on the stream, whose
\* handler has not run yet. n is the least number of bytes an async_read
\* asked for; strand tells whether the handler was wrapped by the strand;
\* cancelled, whether cancel() was called while it was pending; gone, whether
\* its stream has been destroyed since.
Op(kind, n, strand) ==
    [kind |-> kind, n |-> n, strand |-> strand, cancelled |-> FALSE,
     gone |-> FALSE]

Issue(c, kind, n, strand) ==
    [c EXCEPT !.ops = Append(@, Op(kind, n, strand))]

StreamOps ==
    { "connect", "handshake", "write", "read_status", "read_headers",
      "read_content_length", "read_chunk_header", "read_chunk_data",
      "read_until_eof" }

\* cancel(): the handler of every pending operation of the object will run
\* with operation_aborted, unless the operation had completed already.
Cancel(ops_, kinds, destroyed) ==
    [i \in 1..Len(ops_) |->
        IF ops_[i].kind \in kinds
        THEN [ops_[i] EXCEPT !.cancelled = TRUE, !.gone = @ \/ destroyed]
        ELSE ops_[i]]

stream_cancel(c) ==
    [c EXCEPT !.ops = Cancel(@, StreamOps, FALSE)]

stream_close(c) ==
    [c EXCEPT !.ops = Cancel(@, StreamOps, FALSE), !.stream.open = FALSE]

resolver_cancel(c) ==
    [c EXCEPT !.ops = Cancel(@, {"resolve"}, FALSE)]

\* stream = stream_t(service, request): the old stream is destroyed, which
\* ends its pending operations, and a new, unconnected stream takes its place.
stream_new(c) ==
    [c EXCEPT !.ops = Cancel(@, StreamOps, TRUE),
              !.stream = [open |-> FALSE, answered |-> FALSE],
              !.wire = << >>]

\* A timer: armed while a wait is pending; cancelled counts the waits that
\* were cancelled and whose handlers have not run yet.
TimerIdle ==
    [armed |-> FALSE, cancelled |-> 0]

timer_cancel(t) ==
    IF t.armed
    THEN [armed |-> FALSE, cancelled |-> t.cancelled + 1]
    ELSE t

\* expires_from_now() cancels the pending wait, async_wait() starts a new one.
timer_arm(t) ==
    [timer_cancel(t) EXCEPT !.armed = TRUE]

\* A call recorded in the history of the step and of the connection.
Called(c, what) ==
    [c EXCEPT !.ev = @ \cup {what}]

(***************************************************************************)
(* in_final_state, set_state and the helpers of the anonymous namespace.   *)
(***************************************************************************)
in_final_state(c) ==
    CASE c.state \in { "RESOLVE_ERROR", "CONNECT_ERROR", "HANDSHAKE_ERROR",
                       "WRITE_ERROR", "READ_STATUS_ERROR",
                       "READ_STATUS_DATA_ERROR", "READ_HEADERS_ERROR",
                       "READ_CONTENT_LENGTH_ERROR", "READ_CHUNK_HEADER_ERROR",
                       "READ_CHUNK_DATA_ERROR", "READ_UNTIL_EOF_ERROR",
                       "REDIRECT_EXHAUSTED", "REDIRECT_ERROR", "TIMEOUT",
                       "EXPIRED", "SUCCESS" } -> TRUE
      [] OTHER -> FALSE

\* set_state as an unconditional assignment.
set_state_unguarded(c, state_) ==
    [c EXCEPT !.state = state_]

set_state(c, state_) ==
    IF ~in_final_state(c) \/ c.state = "EXPIRED"
    THEN [c EXCEPT !.state = state_]
    ELSE c

\* is_socket_closed that knows the end of the stream only.
is_socket_closed_eof_only(ec) ==
    ec = "eof"

is_socket_closed(ec) ==
    ec \in { "eof", "reset" }

is_eof(ec) ==
    ec # "ok" /\ ec = "eof"

\* is_redirect_exhausted that lets one more redirect through.
is_redirect_exhausted_late(c) ==
    c.response.redirect_count > c.request.redirect_count

is_redirect_exhausted(c) ==
    c.response.redirect_count >= c.request.redirect_count

is_reused(c) ==
    c.m_is_reused

is_expired(c) ==
    c.state = "EXPIRED"

\* peek_crlf: is there a CRLF among the buffered bytes.
peek_crlf(buf) ==
    \E i \in 1..Len(buf) : buf[i].t \in { "ST", "HD", "CH", "NL" }

(***************************************************************************)
(* The parser callbacks bound by prepare_parser.                           *)
(***************************************************************************)
status_fn(c, code) ==
    [c EXCEPT !.response.status_code = code]

headers_complete_fn(c, hd) ==
    [c EXCEPT !.content_length = IF hd.cl < 0 THEN SizeMax ELSE hd.cl,
              !.response.headers = hd]

\* body_fn that appends to the raw body whether or not a body callback is
\* configured.
body_fn_appending(c, slice) ==
    IF c.request.body_callback
    THEN [c EXCEPT !.hist.body_calls = @ + 1,
                   !.hist.body_bytes = @ + Len(slice),
                   !.raw = @ \o slice]
    ELSE [c EXCEPT !.raw = @ \o slice]

body_fn(c, slice) ==
    IF c.request.body_callback
    THEN [c EXCEPT !.hist.body_calls = @ + 1,
                   !.hist.body_bytes = @ + Len(slice)]
    ELSE [c EXCEPT !.raw = @ \o slice]

chunk_header_fn(c, length) ==
    [c EXCEPT !.content_length = length]

\* prepare_parser that leaves content_length as it is.
prepare_parser_stale(c) ==
    [c EXCEPT !.raw = << >>]

prepare_parser(c) ==
    [c EXCEPT !.raw = << >>, !.content_length = 0]

\* new parser_t(RESPONSE)
ParserNew ==
    [phase |-> "status", left |-> 0]

(***************************************************************************)
(* The incremental parser: it consumes buffered bytes up to the next event *)
(* that pauses it (status, headers complete, chunk header, body slice), to *)
(* the end of the buffer, or to the first byte it cannot accept.           *)
(* ParserRun(c, n) continues a run that has parsed n bytes so far.         *)
(***************************************************************************)
Min(a, b) ==
    IF a < b THEN a ELSE b

Consume(c, k, phase, left) ==
    [c EXCEPT !.response_buf = SubSeq(@, k + 1, Len(@)),
              !.parser = [phase |-> phase, left |-> left]]

ParserFail(c, n) ==
    [c |-> [c EXCEPT !.parser.phase = "error"], n |-> n]

BodyPhaseAfter(hd) ==
    CASE hd.chunked -> [phase |-> "chunk_size", left |-> 0]
      [] ~hd.chunked /\ hd.cl = 0 -> [phase |-> "done", left |-> 0]
      [] ~hd.chunked /\ hd.cl > 0 -> [phase |-> "body", left |-> hd.cl]
      [] OTHER -> [phase |-> "body_eof", left |-> 0]

ParserRun(c, n) ==
    IF c.response_buf = << >>
    THEN [c |-> c, n |-> n]
    ELSE
    LET tk == Head(c.response_buf)
        p == c.parser
        k == Min(p.left, Len(c.response_buf))
    IN  CASE p.phase = "status" ->
                IF tk.t = "ST"
                THEN [c |-> status_fn(Consume(c, 1, "headers", 0), tk.v),
                      n |-> n + 1]
                ELSE ParserFail(c, n)
          [] p.phase = "headers" ->
                IF tk.t = "HD"
                THEN [c |-> headers_complete_fn(
                                Consume(c, 1, BodyPhaseAfter(tk.v).phase,
                                        BodyPhaseAfter(tk.v).left), tk.v),
                      n |-> n + 1]
                ELSE ParserFail(c, n)
          [] p.phase = "body" ->
                [c |-> body_fn(Consume(c, k, IF k = p.left THEN "done" ELSE "body",
                                       p.left - k),
                               SubSeq(c.response_buf, 1, k)),
                 n |-> n + k]
          [] p.phase = "body_eof" ->
                [c |-> body_fn(Consume(c, Len(c.response_buf), "body_eof", 0),
                               c.response_buf),
                 n |-> n + Len(c.response_buf)]
          [] p.phase = "chunk_size" ->
                IF tk.t = "CH"
                THEN [c |-> chunk_header_fn(
                                Consume(c, 1, IF tk.v = 0 THEN "chunk_trailer"
                                                          ELSE "chunk_data", tk.v),
                                tk.v),
                      n |-> n + 1]
                ELSE ParserFail(c, n)
          [] p.phase = "chunk_data" ->
                [c |-> body_fn(Consume(c, k, IF k = p.left THEN "chunk_crlf"
                                                         ELSE "chunk_data",
                                       p.left - k),
                               SubSeq(c.response_buf, 1, k)),
                 n |-> n + k]
          [] p.phase = "chunk_crlf" ->
                IF tk.t = "NL"
                THEN ParserRun(Consume(c, 1, "chunk_size", 0), n + 1)
                ELSE ParserFail(c, n)
          [] p.phase = "chunk_trailer" ->
                IF tk.t = "NL"
                THEN ParserRun(Consume(c, 1, "done", 0), n + 1)
                ELSE ParserFail(c, n)
          [] OTHER -> ParserFail(c, n)

\* execute_parser: feed the buffer, consume what was parsed, report whether
\* any byte was parsed.
execute_parser(c) ==
    LET r == ParserRun(c, 0)
    IN  [c |-> r.c, ok |-> r.n > 0]

(***************************************************************************)
(* Responses and errors.                                                   *)
(***************************************************************************)
NoError ==
    [kind |-> "NONE", msg |-> ""]

\* error_t's conversion to bool: an error is present unless the kind is the
\* default one or SUCCESS.
error_present(e) ==
    e.kind \notin { "NONE", "SUCCESS" }

\* response_t{request}
response_t(redirects) ==
    [status_code |-> 0, headers |-> NoHeaders, error |-> NoError,
     redirect_count |-> 0, redirects |-> redirects, raw |-> << >>]

\* What a redirects chain keeps of a response: its request's target and its
\* status code at the time it was added.
Snapshot(c) ==
    [uri |-> c.request.uri, status_code |-> c.response.status_code]

(***************************************************************************)
(* Timers and finalization.                                                *)
(***************************************************************************)
setup_timeout(c) ==
    [Called(c, "setup_timeout") EXCEPT
        !.timeout_timer = timer_arm(@)]

setup_dispose_timer(c) ==
    [Called(c, "setup_dispose_timer") EXCEPT !.dispose_timer = timer_arm(@)]

\* The tail of end(): the stream, the raw body, the callbacks, the promise.
end_stream(c) ==
    IF c.request.keep_alive
    THEN IF c.response.headers.close
         THEN stream_close(stream_cancel(c))
         ELSE c
    ELSE stream_cancel(c)

\* The end of end() that never sets an exception.
promise_set_always_value(c) ==
    [c EXCEPT
        !.promise =
            [sets |-> @.sets + 1,
             kind |-> IF @.sets > 0 THEN @.kind ELSE "value",
             error |-> IF @.sets > 0 THEN @.error ELSE c.response.error.kind,
             dispose_armed |-> IF @.sets > 0 THEN @.dispose_armed
                               ELSE c.dispose_timer.armed]]

promise_set(c) ==
    [c EXCEPT
        !.promise =
            [sets |-> @.sets + 1,
             kind |-> IF @.sets > 0 THEN @.kind
                      ELSE IF error_present(c.response.error)
                              /\ c.request.throw_on_error
                           THEN "exception" ELSE "value",
             error |-> IF @.sets > 0 THEN @.error ELSE c.response.error.kind,
             dispose_armed |-> IF @.sets > 0 THEN @.dispose_armed
                               ELSE c.dispose_timer.armed]]

\* What final_callback is given: the response as it is when end() calls it
\* (the length of its raw body, its error) and the number of times the
\* promise has been set by then.
Seen(c) ==
    [raw_len |-> Len(c.response.raw), error |-> c.response.error.kind,
     sets |-> c.promise.sets]

NoneSeen ==
    [raw_len |-> 0, error |-> "NONE", sets |-> 0]

end_(c) ==
    LET c1 == resolver_cancel(Called(c, "end"))
        c2 == [c1 EXCEPT !.timeout_timer = timer_cancel(@),
                         !.hist.ends = @ + 1,
                         !.hist.final_calls =
                            IF c.request.final_callback THEN @ + 1 ELSE @,
                         !.hist.final_seen =
                            IF c.request.final_callback THEN Seen(c) ELSE @]
        c3 == setup_dispose_timer(c2)
        c4 == end_stream(c3)
        c5 == [c4 EXCEPT !.response.raw = c4.raw, !.raw = << >>]
        c6 == [c5 EXCEPT !.hist.eos_calls =
                            IF c.request.body_callback THEN @ + 1 ELSE @,
                         !.hist.eos_error =
                            IF c.request.body_callback
                            THEN c5.response.error.kind ELSE @]
    IN  promise_set(c6)

\* set_error without the test of in_final_state().
set_error_unguarded(c, new_state, msg) ==
    end_([set_state(c, new_state) EXCEPT
             !.response.error = [kind |-> new_state, msg |-> msg]])

set_error(c, new_state, msg) ==
    IF in_final_state(c)
    THEN c
    ELSE end_([set_state(c, new_state) EXCEPT
                  !.response.error = [kind |-> new_state, msg |-> msg]])

\* set_error(new_state, ec): the message is the one of the error code.
set_error_ec(c, new_state, ec) ==
    IF ec = "aborted"
    THEN c
    ELSE set_error(c, new_state, ec)

\* set_timeout that leaves the response's error as it was.
set_timeout_no_error(c) ==
    IF in_final_state(c)
    THEN IF ~c.request.keep_alive THEN stream_close(c) ELSE c
    ELSE end_(set_state(c, "TIMEOUT"))

\* set_timeout that sets the state and leaves end() out.
set_timeout_silent(c) ==
    IF in_final_state(c)
    THEN IF ~c.request.keep_alive THEN stream_close(c) ELSE c
    ELSE set_state(c, "TIMEOUT")

\* set_timeout that closes the stream of a terminal connection whatever
\* keep_alive says.
set_timeout_always_closes(c) ==
    IF in_final_state(c)
    THEN stream_close(c)
    ELSE LET c1 == set_state(c, "TIMEOUT")
         IN  end_([c1 EXCEPT !.response.error =
                                [kind |-> c1.state, msg |-> "timeout"]])

set_timeout(c) ==
    IF in_final_state(c)
    THEN IF ~c.request.keep_alive THEN stream_close(c) ELSE c
    ELSE LET c1 == set_state(c, "TIMEOUT")
         IN  end_([c1 EXCEPT !.response.error =
                                [kind |-> c1.state, msg |-> "timeout"]])

set_dispose(c) ==
    set_state(c, "EXPIRED")

\* on_timeout that does not look at the result of the wait.
on_timeout_any(c, ec) ==
    set_timeout(c)

on_timeout(c, ec) ==
    IF ec = "ok" THEN set_timeout(c) ELSE c

on_dispose_timer(c, ec) ==
    IF ec = "ok" THEN set_dispose(c) ELSE c

(***************************************************************************)
(* The phases that start an operation.                                     *)
(***************************************************************************)
resolve(c) ==
    Issue(set_state(Called(c, "resolve"), "RESOLVE"), "resolve", 0, FALSE)

connect(c) ==
    Issue(set_state(c, "CONNECT"), "connect", 0, TRUE)

handshake(c) ==
    Issue(set_state(c, "HANDSHAKE"), "handshake", 0, TRUE)

write(c) ==
    Issue(set_state([Called(c, "write") EXCEPT !.request_buf = @ + 1], "WRITE"),
          "write", 0, TRUE)

read_status(c) ==
    Issue(set_state(c, "READ_STATUS"), "read_status", 0, TRUE)

read_headers(c) ==
    Issue(set_state(c, "READ_HEADERS"), "read_headers", 0, TRUE)

read_content_length(c) ==
    LET n == IF Len(c.response_buf) > c.content_length
             THEN 0
             ELSE c.content_length - Len(c.response_buf)
    IN  Issue(set_state(c, "READ_CONTENT_LENGTH"), "read_content_length", n, TRUE)

read_chunk_data(c) ==
    Issue(set_state(c, "READ_CHUNK_DATA"), "read_chunk_data",
          c.content_length - Len(c.response_buf), TRUE)

read_until_eof(c) ==
    Issue(set_state(c, "READ_UNTIL_EOF"), "read_until_eof", 1, TRUE)

(***************************************************************************)
(* Redirects and success.                                                  *)
(***************************************************************************)
\* perform_redirect that looks for the Location header first.
perform_redirect_location_first(c) ==
    IF ~c.response.headers.loc
    THEN set_error(c, "REDIRECT_ERROR", "no Location.")
    ELSE IF is_redirect_exhausted(c)
    THEN set_error(c, "REDIRECT_EXHAUSTED", "redirect exhausted")
    ELSE
    LET redirects == IF c.response.redirects = << >>
                     THEN << Snapshot(c) >>
                     ELSE c.response.redirects
        redirect_count == c.response.redirect_count + 1
        c1 == [Called(c, "perform_redirect") EXCEPT
                  !.request.uri = @ + 1,
                  !.response = [response_t(redirects) EXCEPT
                                   !.redirect_count = redirect_count]]
        c2 == [c1 EXCEPT !.response.redirects = Append(@, Snapshot(c1))]
        c3 == [stream_new(c2) EXCEPT !.request_buf = 0,
                                     !.response_buf = << >>,
                                     !.parser = ParserNew]
    IN  resolve(prepare_parser(c3))

\* perform_redirect that reports a missing Location header as exhaustion.
perform_redirect_wrong_kind(c) ==
    IF is_redirect_exhausted(c)
    THEN set_error(c, "REDIRECT_EXHAUSTED", "redirect exhausted")
    ELSE IF ~c.response.headers.loc
    THEN set_error(c, "REDIRECT_EXHAUSTED", "no Location.")
    ELSE
    LET redirects == IF c.response.redirects = << >>
                     THEN << Snapshot(c) >>
                     ELSE c.response.redirects
        redirect_count == c.response.redirect_count + 1
        c1 == [Called(c, "perform_redirect") EXCEPT
                  !.request.uri = @ + 1,
                  !.response = [response_t(redirects) EXCEPT
                                   !.redirect_count = redirect_count]]
        c2 == [c1 EXCEPT !.response.redirects = Append(@, Snapshot(c1))]
        c3 == [stream_new(c2) EXCEPT !.request_buf = 0,
                                     !.response_buf = << >>,
                                     !.parser = ParserNew]
    IN  resolve(prepare_parser(c3))

\* perform_redirect that starts the redirects chain without the response that
\* redirected first.
perform_redirect_unseeded(c) ==
    IF is_redirect_exhausted(c)
    THEN set_error(c, "REDIRECT_EXHAUSTED", "redirect exhausted")
    ELSE IF ~c.response.headers.loc
    THEN set_error(c, "REDIRECT_ERROR", "no Location.")
    ELSE
    LET redirects == c.response.redirects
        redirect_count == c.response.redirect_count + 1
        c1 == [Called(c, "perform_redirect") EXCEPT
                  !.request.uri = @ + 1,
                  !.response = [response_t(redirects) EXCEPT
                                   !.redirect_count = redirect_count]]
        c2 == [c1 EXCEPT !.response.redirects = Append(@, Snapshot(c1))]
        c3 == [stream_new(c2) EXCEPT !.request_buf = 0,
                                     !.response_buf = << >>,
                                     !.parser = ParserNew]
    IN  resolve(prepare_parser(c3))

perform_redirect(c) ==
    IF is_redirect_exhausted(c)
    THEN set_error(c, "REDIRECT_EXHAUSTED", "redirect exhausted")
    ELSE IF ~c.response.headers.loc
    THEN set_error(c, "REDIRECT_ERROR", "no Location.")
    ELSE
    LET redirects == IF c.response.redirects = << >>
                     THEN << Snapshot(c) >>
                     ELSE c.response.redirects
        redirect_count == c.response.redirect_count + 1
        c1 == [Called(c, "perform_redirect") EXCEPT
                  !.request.uri = @ + 1,
                  !.response = [response_t(redirects) EXCEPT
                                   !.redirect_count = redirect_count]]
        c2 == [c1 EXCEPT !.response.redirects = Append(@, Snapshot(c1))]
        c3 == [stream_new(c2) EXCEPT !.request_buf = 0,
                                     !.response_buf = << >>,
                                     !.parser = ParserNew]
    IN  resolve(prepare_parser(c3))

\* set_success that never follows a redirect.
set_success_plain(c) ==
    LET c0 == Called(c, "set_success")
    IN  IF ~in_final_state(c0)
        THEN LET c1 == set_state(c0, "SUCCESS")
             IN  end_([c1 EXCEPT !.response.error =
                                    [kind |-> c1.state, msg |-> "success"]])
        ELSE c0

set_success(c) ==
    LET c0 == Called(c, "set_success")
    IN  IF is_redirect_code(c0.response.status_code)
        THEN IF c0.request.redirect
             THEN perform_redirect(c0)
             ELSE c0
        ELSE IF ~in_final_state(c0)
             THEN LET c1 == set_state(c0, "SUCCESS")
                  IN  end_([c1 EXCEPT !.response.error =
                                         [kind |-> c1.state, msg |-> "success"]])
             ELSE c0

(***************************************************************************)
(* The completion handlers.                                                *)
(***************************************************************************)
on_resolve(c, ec) ==
    IF ec # "ok"
    THEN set_error_ec(c, "RESOLVE_ERROR", ec)
    ELSE connect(c)

\* on_connect that reports a failure under the kind of the resolve phase.
on_connect_wrong_kind(c, ec) ==
    IF ec # "ok"
    THEN set_error_ec(c, "RESOLVE_ERROR", ec)
    ELSE handshake(c)

on_connect(c, ec) ==
    IF ec # "ok"
    THEN set_error_ec(c, "CONNECT_ERROR", ec)
    ELSE handshake(c)

on_handshake(c, ec) ==
    IF ec # "ok"
    THEN set_error_ec(c, "HANDSHAKE_ERROR", ec)
    ELSE write(c)

\* on_write that restarts whether the connection is a reused one or not.
on_write_restarting(c, ec) ==
    IF ec # "ok"
    THEN IF is_socket_closed(ec) /\ ~in_final_state(c)
         THEN restart(c)
         ELSE set_error_ec(c, "WRITE_ERROR", ec)
    ELSE read_status(c)

on_write(c, ec) ==
    IF ec # "ok"
    THEN IF is_socket_closed(ec) /\ is_reused(c) /\ ~in_final_state(c)
         THEN restart(c)
         ELSE set_error_ec(c, "WRITE_ERROR", ec)
    ELSE read_status(c)

on_read_status(c, ec) ==
    IF ec # "ok"
    THEN IF is_socket_closed(ec) /\ is_reused(c) /\ ~in_final_state(c)
         THEN restart(c)
         ELSE set_error_ec(c, "READ_STATUS_ERROR", ec)
    ELSE LET r == execute_parser(c)
         IN  IF ~r.ok
             THEN set_error(r.c, "READ_STATUS_DATA_ERROR", "bad status data")
             ELSE read_headers(r.c)

\* read_content that looks for the chunked transfer encoding first.
read_content_chunked_first(c) ==
    IF c.response.headers.chunked
    THEN read_chunk_header(c)
    ELSE IF c.response.headers.cl >= 0
    THEN read_content_length(c)
    ELSE read_until_eof(c)

read_content(c) ==
    IF c.response.headers.cl >= 0
    THEN read_content_length(c)
    ELSE IF c.response.headers.chunked
    THEN read_chunk_header(c)
    ELSE read_until_eof(c)

\* on_read_headers that takes the end of the stream for an error.
on_read_headers_eof_fatal(c, ec) ==
    IF ec # "ok"
    THEN set_error_ec(c, "READ_HEADERS_ERROR", ec)
    ELSE LET c1 == IF Len(c.response_buf) = 0
                   THEN set_error(c, "READ_HEADERS_ERROR", "no headers")
                   ELSE c
             r == execute_parser(c1)
         IN  IF ~r.ok
             THEN set_error(r.c, "READ_HEADERS_ERROR", "bad headers data")
             ELSE read_content(r.c)

on_read_headers(c, ec) ==
    IF ec # "ok" /\ ~is_eof(ec)
    THEN set_error_ec(c, "READ_HEADERS_ERROR", ec)
    ELSE LET c1 == IF Len(c.response_buf) = 0
                   THEN set_error(c, "READ_HEADERS_ERROR", "no headers")
                   ELSE c
             r == execute_parser(c1)
         IN  IF ~r.ok
             THEN set_error(r.c, "READ_HEADERS_ERROR", "bad headers data")
             ELSE read_content(r.c)

\* on_read_content_length that takes the end of the stream for an error,
\* however many bytes are buffered.
on_read_content_length_eof_fatal(c, ec) ==
    IF ec # "ok"
    THEN set_error_ec(c, "READ_CONTENT_LENGTH_ERROR", ec)
    ELSE LET r == execute_parser(c)
         IN  IF ~r.ok
             THEN set_error(r.c, "READ_CONTENT_LENGTH_ERROR", "bad content length")
             ELSE set_success(r.c)

on_read_content_length(c, ec) ==
    IF (ec # "ok" /\ ~is_eof(ec))
       \/ (ec # "ok" /\ is_eof(ec) /\ Len(c.response_buf) < c.content_length)
    THEN set_error_ec(c, "READ_CONTENT_LENGTH_ERROR", ec)
    ELSE LET r == execute_parser(c)
         IN  IF ~r.ok
             THEN set_error(r.c, "READ_CONTENT_LENGTH_ERROR", "bad content length")
             ELSE set_success(r.c)

\* read_chunk_header that starts the read although a CRLF is buffered, and
\* runs the handler as well.
read_chunk_header_eager(c) ==
    LET c1 == set_state(c, "READ_CHUNK_HEADER")
    IN  IF peek_crlf(c1.response_buf)
        THEN on_read_chunk_header(Issue(c1, "read_chunk_header", 0, TRUE), "ok")
        ELSE Issue(c1, "read_chunk_header", 0, TRUE)

read_chunk_header(c) ==
    LET c1 == set_state(c, "READ_CHUNK_HEADER")
    IN  IF peek_crlf(c1.response_buf)
        THEN on_read_chunk_header(c1, "ok")
        ELSE Issue(c1, "read_chunk_header", 0, TRUE)

\* on_read_chunk_header that takes the end of the stream for an error.
on_read_chunk_header_eof_fatal(c, ec) ==
    IF ec # "ok"
    THEN set_error_ec(c, "READ_CHUNK_HEADER_ERROR", ec)
    ELSE LET r == execute_parser(c)
         IN  IF ~r.ok
             THEN set_error(r.c, "READ_CHUNK_HEADER_ERROR", "bad chunk header")
             ELSE IF r.c.content_length > 0
             THEN IF Len(r.c.response_buf) > r.c.content_length
                  THEN on_read_chunk_data(set_state(r.c, "READ_CHUNK_DATA"), "ok")
                  ELSE read_chunk_data(r.c)
             ELSE set_success(r.c)

on_read_chunk_header(c, ec) ==
    IF ec # "ok"
    THEN IF ~is_eof(ec)
         THEN set_error_ec(c, "READ_CHUNK_HEADER_ERROR", ec)
         ELSE set_success(c)
    ELSE LET r == execute_parser(c)
         IN  IF ~r.ok
             THEN set_error(r.c, "READ_CHUNK_HEADER_ERROR", "bad chunk header")
             ELSE IF r.c.content_length > 0
             THEN IF Len(r.c.response_buf) > r.c.content_length
                  THEN on_read_chunk_data(set_state(r.c, "READ_CHUNK_DATA"), "ok")
                  ELSE read_chunk_data(r.c)
             ELSE set_success(r.c)

on_read_chunk_data(c, ec) ==
    IF ec # "ok" /\ ~is_eof(ec)
    THEN set_error_ec(c, "READ_CHUNK_DATA_ERROR", ec)
    ELSE IF ec # "ok" /\ is_eof(ec) /\ Len(c.response_buf) < c.content_length
    THEN set_error_ec(c, "READ_CHUNK_DATA_ERROR", ec)
    ELSE LET r == execute_parser(c)
         IN  IF ~r.ok
             THEN set_error(r.c, "READ_CHUNK_DATA_ERROR", "chunk data error")
             ELSE read_chunk_header(r.c)

on_read_until_eof(c, ec) ==
    IF ec # "ok"
    THEN IF ~is_eof(ec)
         THEN set_error_ec(c, "READ_UNTIL_EOF_ERROR", ec)
         ELSE LET r == execute_parser(c)
              IN  IF ~r.ok
                  THEN set_error(r.c, "READ_UNTIL_EOF_ERROR", "until eof error")
                  ELSE set_success(r.c)
    ELSE read_until_eof(c)

(***************************************************************************)
(* start and restart.                                                      *)
(***************************************************************************)
\* start that writes on the adopted stream without looking whether it is open.
start_write_unopened(c) ==
    LET c1 == prepare_parser(c)
        c2 == IF is_reused(c1) THEN write(c1) ELSE resolve(c1)
    IN  setup_timeout(c2)

start(c) ==
    LET c1 == prepare_parser(c)
        c2 == IF is_reused(c1)
              THEN IF c1.stream.open THEN write(c1) ELSE restart(c1)
              ELSE resolve(c1)
    IN  setup_timeout(c2)

restart(c) ==
    LET c1 == stream_new(stream_cancel(Called(c, "restart")))
    IN  start([c1 EXCEPT !.parser = ParserNew,
                          !.m_is_reused = FALSE,
                          !.hist.restarts = @ + 1])

(***************************************************************************)
(* The state machine.                                                      *)
(***************************************************************************)
\* The options of a request that the connection reads.
\* redirect_count is read only when redirect is set. A final_callback, and
\* a body_callback, is tried with keep_alive and throw_on_error off and
\* without the other callback.
Requests ==
    { r \in [keep_alive : BOOLEAN, redirect : BOOLEAN,
              redirect_count : 0..MaxRedirects, throw_on_error : BOOLEAN,
              body_callback : BOOLEAN, final_callback : BOOLEAN, uri : {0}] :
        /\ ~r.redirect => r.redirect_count = 0
        /\ r.final_callback => (~r.keep_alive /\ ~r.throw_on_error)
        /\ r.body_callback =>
              (~r.keep_alive /\ ~r.throw_on_error /\ ~r.final_callback) }

\* The redirects chain a reused connection takes over from the previous one,
\* when that one followed a redirect. (The chain is looked at by
\* perform_redirect only.)
PriorChain ==
    << [uri |-> 0, status_code |-> 301], [uri |-> 0, status_code |-> 0] >>

NoStep ==
    [act |-> "none", ec |-> "ok", fin |-> FALSE, reused |-> FALSE, ev |-> {}]

\* The connection as one record, for the member functions to work on.
Cur ==
    [state |-> state, m_is_reused |-> m_is_reused, request |-> request,
     response |-> response, stream |-> stream, wire |-> wire, ops |-> ops,
     timeout_timer |-> timeout_timer, dispose_timer |-> dispose_timer,
     promise |-> promise, request_buf |-> request_buf,
     response_buf |-> response_buf, parser |-> parser,
     content_length |-> content_length, raw |-> raw, hist |-> hist, ev |-> {}]

\* The step act, run with result ec, leaves the connection as the record c.
Commit(c, act, ec) ==
    /\ state' = c.state
    /\ m_is_reused' = c.m_is_reused
    /\ request' = c.request
    /\ response' = c.response
    /\ stream' = c.stream
    /\ wire' = c.wire
    /\ ops' = c.ops
    /\ timeout_timer' = c.timeout_timer
    /\ dispose_timer' = c.dispose_timer
    /\ promise' = c.promise
    /\ request_buf' = c.request_buf
    /\ response_buf' = c.response_buf
    /\ parser' = c.parser
    /\ content_length' = c.content_length
    /\ raw' = c.raw
    /\ hist' = c.hist
    /\ last' = [act |-> act, ec |-> ec, fin |-> in_final_state(Cur),
                reused |-> m_is_reused, ev |-> c.ev]
    /\ UNCHANGED << auth_vars, session >>

\* The targets a session's request can have: an origin (protocol, domain and
\* port) and a path.
Uris ==
    [origin : { "a", "b" }, path : { "/", "/x" }] \ { [origin |-> "b", path |-> "/x"] }

\* session_impl_t after construction: default request options, no connection.
NoConnection ==
    [exists |-> FALSE, id |-> 0,
     request |-> [uri |-> [origin |-> "a", path |-> "/"],
                  throw_on_error |-> FALSE, cache_redirects |-> FALSE,
                  prepared |-> FALSE],
     reused |-> FALSE, outcome |-> "pending", error |-> NoError,
     redirects |-> { }]

NoSend ==
    [status |-> "none", error |-> NoError, prepared |-> FALSE,
     prev |-> "none", future |-> 0]

NoSession ==
    [request |-> NoConnection.request, connection |-> NoConnection,
     sent |-> NoSend]

\* No auth value parsed, no string made of one.
NoAuth ==
    [status |-> "none", first |-> [value |-> << >>],
     second |-> [value |-> << >>]]

NoString ==
    [set |-> FALSE, str |-> << >>]

\* conn_impl_t's two constructors: a fresh connection, or one that takes over
\* the stream (open or closed) and the redirects chain of a previous one.
Init ==
    /\ state = "INIT"
    /\ request \in Requests
    /\ m_is_reused \in BOOLEAN
    /\ stream \in [open : IF m_is_reused THEN BOOLEAN ELSE {FALSE},
                    answered : {FALSE}]
    /\ wire = << >>
    /\ response \in { response_t(ch) :
                        ch \in IF m_is_reused /\ request.redirect
                               THEN { << >>, PriorChain }
                               ELSE { << >> } }
    /\ ops = << >>
    /\ timeout_timer = TimerIdle
    /\ dispose_timer = TimerIdle
    /\ promise = [sets |-> 0, kind |-> "none", error |-> "NONE",
                  dispose_armed |-> FALSE]
    /\ request_buf = 0
    /\ response_buf = << >>
    /\ parser = ParserNew
    /\ content_length = 0
    /\ raw = << >>
    /\ hist = [ends |-> 0, restarts |-> 0, body_calls |-> 0, eos_calls |-> 0,
               final_calls |-> 0, final_seen |-> NoneSeen,
               body_bytes |-> 0, eos_error |-> "NONE"]
    /\ last = NoStep
    /\ auth_in = << >>
    /\ auth = NoAuth
    /\ auth_out = NoString
    /\ session = NoSession

\* connection_t::start()
Start ==
    /\ state = "INIT"
    /\ Commit(start(Cur), "start", "ok")

(***************************************************************************)
(* The environment: how an operation can have completed when its handler   *)
(* runs. An outcome is the result the handler is called with and the       *)
(* connection as the completion itself left it (stream and buffers).       *)
(***************************************************************************)
RemoveAt(seq, i) ==
    SubSeq(seq, 1, i - 1) \o SubSeq(seq, i + 1, Len(seq))

Outcome(c, ec) ==
    [c |-> c, ec |-> ec]

\* The delimiters of async_read_until among the buffered bytes.
HasCrlf(buf) ==
    peek_crlf(buf)

HasBlankLine(buf) ==
    \E i \in 1..Len(buf) :
        \/ buf[i].t = "HD"
        \/ i > 1 /\ buf[i].t = "NL" /\ buf[i - 1].t \in { "ST", "CH", "NL" }

\* Is the read op satisfied once the bytes more have arrived.
Satisfied(op, buf, more) ==
    CASE op.kind \in { "read_status", "read_chunk_header" } ->
            HasCrlf(buf \o more)
      [] op.kind = "read_headers" ->
            HasBlankLine(buf \o more)
      [] OTHER -> Len(more) >= op.n

\* The numbers of bytes of w a read can have transferred when it completes
\* with success: none if it was satisfied from the start, else any number
\* that satisfies it (the last piece to arrive may hold more than was needed).
OkTransfers(op, w) ==
    IF Satisfied(op, response_buf, << >>)
    THEN { 0 }
    ELSE { k \in 1..Len(w) : Satisfied(op, response_buf, SubSeq(w, 1, k)) }

\* The numbers of bytes of w after which the peer can have closed the stream
\* for the read to end with eof.
EofTransfers(op, w) ==
    { k \in 0..Len(w) : ~Satisfied(op, response_buf, SubSeq(w, 1, k)) }

\* The first k bytes of w arrive in the buffer; the peer has the rest to send.
Deliver(c, w, k) ==
    [c EXCEPT !.response_buf = @ \o SubSeq(w, 1, k),
              !.wire = SubSeq(w, k + 1, Len(w)),
              !.stream.answered = TRUE]

\* What the peer has to send: the rest of its answer, once it has begun to
\* answer; before, any of the responses, or nothing at all.
Answers ==
    IF stream.answered THEN { wire } ELSE ServerResponses \cup { << >> }

ReadOutcomes(op) ==
    IF stream.open
    THEN UNION { { Outcome(Deliver(Cur, w, k), "ok") : k \in OkTransfers(op, w) }
                 \cup { Outcome([Deliver(Cur, w, k) EXCEPT !.wire = << >>], "eof") :
                            k \in EofTransfers(op, w) } :
                 w \in Answers }
         \cup { Outcome(Cur, "reset"), Outcome(Cur, "other") }
    ELSE { Outcome(Cur, "other") }

\* A connect that succeeds opens the stream; a handshake and a write succeed
\* on an open stream only; a write that succeeds has consumed the request
\* buffer.
Completions(op) ==
    CASE op.kind = "resolve" ->
            { Outcome(Cur, "ok"), Outcome(Cur, "other") }
      [] op.kind = "connect" ->
            { Outcome([Cur EXCEPT !.stream.open = TRUE], "ok"),
              Outcome(Cur, "other") }
      [] op.kind = "handshake" ->
            IF stream.open
            THEN { Outcome(Cur, "ok"), Outcome(Cur, "other") }
            ELSE { Outcome(Cur, "other") }
      [] op.kind = "write" ->
            IF stream.open
            THEN { Outcome([Cur EXCEPT !.request_buf = 0], "ok"),
                   Outcome(Cur, "reset"), Outcome(Cur, "other") }
            ELSE { Outcome(Cur, "other") }
      [] OTHER -> ReadOutcomes(op)

\* The handler of a cancelled operation runs with operation_aborted, or with
\* the result of the operation if it had completed before it was cancelled.
Outcomes(op) ==
    (IF op.cancelled THEN { Outcome(Cur, "aborted") } ELSE { })
    \cup (IF op.gone THEN { } ELSE Completions(op))

(***************************************************************************)
(* The handlers run, one at a time: an operation completes, and its        *)
(* handler runs with the result.                                           *)
(***************************************************************************)
\* The pending operations of a kind.
Pending(kind) ==
    { i \in 1..Len(ops) : ops[i].kind = kind }

\* The connection when the handler of operation i starts to run with outcome o.
Completed(i, o) ==
    [o.c EXCEPT !.ops = RemoveAt(@, i)]

OnResolve ==
    \E i \in Pending("resolve") :
        \E o \in Outcomes(ops[i]) :
            Commit(on_resolve(Completed(i, o), o.ec), "on_resolve", o.ec)

OnConnect ==
    \E i \in Pending("connect") :
        \E o \in Outcomes(ops[i]) :
            Commit(on_connect(Completed(i, o), o.ec), "on_connect", o.ec)

OnHandshake ==
    \E i \in Pending("handshake") :
        \E o \in Outcomes(ops[i]) :
            Commit(on_handshake(Completed(i, o), o.ec), "on_handshake", o.ec)

OnWrite ==
    \E i \in Pending("write") :
        \E o \in Outcomes(ops[i]) :
            Commit(on_write(Completed(i, o), o.ec), "on_write", o.ec)

OnReadStatus ==
    \E i \in Pending("read_status") :
        \E o \in Outcomes(ops[i]) :
            Commit(on_read_status(Completed(i, o), o.ec), "on_read_status", o.ec)

OnReadHeaders ==
    \E i \in Pending("read_headers") :
        \E o \in Outcomes(ops[i]) :
            Commit(on_read_headers(Completed(i, o), o.ec), "on_read_headers", o.ec)

OnReadContentLength ==
    \E i \in Pending("read_content_length") :
        \E o \in Outcomes(ops[i]) :
            Commit(on_read_content_length(Completed(i, o), o.ec), "on_read_content_length", o.ec)

OnReadChunkHeader ==
    \E i \in Pending("read_chunk_header") :
        \E o \in Outcomes(ops[i]) :
            Commit(on_read_chunk_header(Completed(i, o), o.ec), "on_read_chunk_header", o.ec)

OnReadChunkData ==
    \E i \in Pending("read_chunk_data") :
        \E o \in Outcomes(ops[i]) :
            Commit(on_read_chunk_data(Completed(i, o), o.ec), "on_read_chunk_data", o.ec)

OnReadUntilEof ==
    \E i \in Pending("read_until_eof") :
        \E o \in Outcomes(ops[i]) :
            Commit(on_read_until_eof(Completed(i, o), o.ec), "on_read_until_eof", o.ec)

\* The timeout timer expires and its handler runs.
OnTimeout ==
    /\ timeout_timer.armed
    /\ Commit(on_timeout([Cur EXCEPT !.timeout_timer.armed = FALSE], "ok"),
              "on_timeout", "ok")

\* The handler of a cancelled wait runs: with operation_aborted, or with
\* success if the timer had expired before the wait was cancelled.
OnTimeoutCancelled ==
    /\ timeout_timer.cancelled > 0
    /\ \E ec \in { "aborted", "ok" } :
          Commit(on_timeout([Cur EXCEPT !.timeout_timer.cancelled = @ - 1], ec),
                 "on_timeout", ec)

\* The dispose timer expires and its handler runs (nothing cancels it).
OnDisposeTimer ==
    /\ dispose_timer.armed
    /\ Commit(on_dispose_timer([Cur EXCEPT !.dispose_timer.armed = FALSE], "ok"),
              "on_dispose_timer", "ok")

Handlers ==
    \/ OnResolve \/ OnConnect \/ OnHandshake \/ OnWrite \/ OnReadStatus
    \/ OnReadHeaders \/ OnReadContentLength \/ OnReadChunkHeader
    \/ OnReadChunkData \/ OnReadUntilEof

Next ==
    \/ Start
    \/ Handlers
    \/ OnTimeout \/ OnTimeoutCancelled \/ OnDisposeTimer

Spec ==
    Init /\ [][Next]_vars

(***************************************************************************)
(* auth_t: the login:password literal (auth.cpp). A string is a sequence   *)
(* of characters; positions count from 0 as in std::string.                *)
(***************************************************************************)
Chars ==
    { ":", "a", "b", "c" }

Strings ==
    UNION { [1..n -> Chars] : n \in 0..MaxStr }

\* std::string::find(":"): the position of the first ':', or npos.
find(str) ==
    LET hits == { i \in 1..Len(str) : str[i] = ":" }
    IN  IF hits = { }
        THEN npos
        ELSE (CHOOSE i \in hits : \A j \in hits : i <= j) - 1

\* std::string::substr(pos, n) and substr(pos), for pos + n within the string.
substr(str, pos, n) ==
    SubSeq(str, pos + 1, pos + n)

substr_from(str, pos) ==
    SubSeq(str, pos + 1, Len(str))

\* login_t and password_t hold a string; value() gives it back.
login_t(str) ==
    [value |-> str]

password_t(str) ==
    [value |-> str]

value(x) ==
    x.value

auth_t(login, password) ==
    [status |-> "value", first |-> login, second |-> password]

\* The std::runtime_error thrown instead of a value.
Thrown ==
    [status |-> "thrown", first |-> login_t(<< >>), second |-> password_t(<< >>)]

\* from_string that keeps the ':' at the head of the password.
from_string_keep_colon(str) ==
    LET ind == find(str)
    IN  IF ind # npos
        THEN auth_t(login_t(substr(str, 0, ind)),
                    password_t(substr_from(str, ind)))
        ELSE Thrown

\* from_string that takes a string without ':' for a login with an empty
\* password.
from_string_lenient(str) ==
    LET ind == find(str)
    IN  IF ind # npos
        THEN auth_t(login_t(substr(str, 0, ind)),
                    password_t(substr_from(str, ind + 1)))
        ELSE auth_t(login_t(str), password_t(<< >>))

from_string(str) ==
    LET ind == find(str)
    IN  IF ind # npos
        THEN auth_t(login_t(substr(str, 0, ind)),
                    password_t(substr_from(str, ind + 1)))
        ELSE Thrown

to_string(a) ==
    value(a.first) \o << ":" >> \o value(a.second)

\* A caller parses a string, and prints the auth value it got.
AuthInit ==
    /\ auth_in \in Strings
    /\ auth = NoAuth
    /\ auth_out = NoString
    /\ session = NoSession
    /\ state = "INIT"
    /\ request = [keep_alive |-> FALSE, redirect |-> FALSE,
                  redirect_count |-> 0, throw_on_error |-> FALSE,
                  body_callback |-> FALSE, final_callback |-> FALSE, uri |-> 0]
    /\ m_is_reused = FALSE
    /\ stream = [open |-> FALSE, answered |-> FALSE]
    /\ wire = << >>
    /\ response = response_t(<< >>)
    /\ ops = << >>
    /\ timeout_timer = TimerIdle
    /\ dispose_timer = TimerIdle
    /\ promise = [sets |-> 0, kind |-> "none", error |-> "NONE",
                  dispose_armed |-> FALSE]
    /\ request_buf = 0
    /\ response_buf = << >>
    /\ parser = ParserNew
    /\ content_length = 0
    /\ raw = << >>
    /\ hist = [ends |-> 0, restarts |-> 0, body_calls |-> 0, eos_calls |-> 0,
               final_calls |-> 0, final_seen |-> NoneSeen,
               body_bytes |-> 0, eos_error |-> "NONE"]
    /\ last = NoStep

AuthFromString ==
    /\ auth.status = "none"
    /\ auth' = from_string(auth_in)
    /\ UNCHANGED << auth_in, auth_out, conn_vars, session >>

AuthToString ==
    /\ auth.status = "value"
    /\ ~auth_out.set
    /\ auth_out' = [set |-> TRUE, str |-> to_string(auth)]
    /\ UNCHANGED << auth_in, auth, conn_vars, session >>

AuthNext ==
    AuthFromString \/ AuthToString

AuthSpec ==
    AuthInit /\ [][AuthNext]_vars

(***************************************************************************)
(* session_impl_t (session.cpp): the session keeps the request options and *)
(* one connection; Send builds the next connection. A connection is taken  *)
(* here by what the session sees of it: the request it was built from and  *)
(* how its future resolved.                                                *)
(***************************************************************************)
\* request_t::prepare(): the options are made into the request to send.
prepare(req) ==
    [req EXCEPT !.prepared = TRUE]

\* The set_option functions: an option of the request is given a new value.
set_option(req, uri, cache_redirects, throw_on_error) ==
    [req EXCEPT !.uri = uri, !.cache_redirects = cache_redirects,
                !.throw_on_error = throw_on_error, !.prepared = FALSE]

can_reuse_connection(req, last_request) ==
    last_request.uri.origin = req.uri.origin

\* The redirects chains a response can carry: none, or one redirect followed.
Chains ==
    { { } } \cup { { [from |-> u, to |-> v] } : u, v \in Uris }

\* redirects_t::find(request): the entries of the chain made for the
\* request's target.
redirects_find(chain, req) ==
    { e \in chain : e.from = req.uri }

skip_redirects(req, chain) ==
    LET resp == redirects_find(chain, req)
    IN  IF resp # { }
        THEN prepare([req EXCEPT !.uri = (CHOOSE e \in resp : TRUE).to])
        ELSE req

\* The errors a connection is taken to end with.
SessionErrors ==
    { [kind |-> "SUCCESS", msg |-> "success"],
      [kind |-> "CONNECT_ERROR", msg |-> "other"] }

\* The end of end(): how the connection's future resolves.
future_set(conn, error, chain) ==
    [conn EXCEPT
        !.outcome = IF error_present(error) /\ conn.request.throw_on_error
                    THEN "exception" ELSE "value",
        !.error = error,
        !.redirects = IF error_present(error) THEN { } ELSE chain]

\* connection_t's constructors, followed by start().
connection_t(req, id, reused) ==
    [exists |-> TRUE, id |-> id, request |-> req, reused |-> reused,
     outcome |-> "pending", error |-> NoError, redirects |-> { }]

\* session_impl_t::Send(). connection->get().get() waits for the previous
\* connection's future and gives its response, or throws the exception the
\* future holds.
Send(s) ==
    LET conn == s.connection
        failed == conn.exists /\ conn.outcome = "exception"
        req == IF conn.exists /\ s.request.cache_redirects
               THEN IF failed THEN s.request
                    ELSE skip_redirects(s.request, conn.redirects)
               ELSE prepare(s.request)
        sent == [status |-> "returned", error |-> NoError,
                 prepared |-> req.prepared,
                 prev |-> IF conn.exists THEN conn.outcome ELSE "none",
                 future |-> 1 - conn.id]
    IN  IF failed
        THEN [s EXCEPT !.request = req,
                       !.sent = [sent EXCEPT !.status = "thrown",
                                             !.error = conn.error,
                                             !.prepared = FALSE,
                                             !.future = conn.id]]
        ELSE [request |-> req,
              connection |->
                  connection_t(req, 1 - conn.id,
                               conn.exists /\ can_reuse_connection(req, conn.request)),
              sent |-> sent]

SessionInit ==
    /\ session = NoSession
    /\ auth_in = << >>
    /\ auth = NoAuth
    /\ auth_out = NoString
    /\ state = "INIT"
    /\ request = [keep_alive |-> FALSE, redirect |-> FALSE,
                  redirect_count |-> 0, throw_on_error |-> FALSE,
                  body_callback |-> FALSE, final_callback |-> FALSE, uri |-> 0]
    /\ m_is_reused = FALSE
    /\ stream = [open |-> FALSE, answered |-> FALSE]
    /\ wire = << >>
    /\ response = response_t(<< >>)
    /\ ops = << >>
    /\ timeout_timer = TimerIdle
    /\ dispose_timer = TimerIdle
    /\ promise = [sets |-> 0, kind |-> "none", error |-> "NONE",
                  dispose_armed |-> FALSE]
    /\ request_buf = 0
    /\ response_buf = << >>
    /\ parser = ParserNew
    /\ content_length = 0
    /\ raw = << >>
    /\ hist = [ends |-> 0, restarts |-> 0, body_calls |-> 0, eos_calls |-> 0,
               final_calls |-> 0, final_seen |-> NoneSeen,
               body_bytes |-> 0, eos_error |-> "NONE"]
    /\ last = NoStep

\* The caller sets options of the session's request.
SessionSetOption ==
    /\ \E uri \in Uris, cache_redirects \in BOOLEAN, throw_on_error \in BOOLEAN :
          /\ uri # session.request.uri
                \/ cache_redirects # session.request.cache_redirects
                \/ throw_on_error # session.request.throw_on_error
          /\ session' = [session EXCEPT
                            !.request = set_option(@, uri, cache_redirects,
                                                   throw_on_error),
                            !.sent = NoSend]
    /\ UNCHANGED << conn_vars, auth_vars >>

\* The caller calls Send; with a previous connection, Send waits for its
\* future.
SessionSend ==
    /\ session.connection.exists => session.connection.outcome # "pending"
    /\ session' = Send(session)
    /\ UNCHANGED << conn_vars, auth_vars >>

\* The session's connection comes to its end and sets its promise.
SessionConnectionEnds ==
    /\ session.connection.exists
    /\ session.connection.outcome = "pending"
    /\ \E error \in SessionErrors, chain \in Chains :
          session' = [session EXCEPT
                         !.connection = future_set(@, error, chain)]
    /\ UNCHANGED << conn_vars, auth_vars >>

SessionNext ==
    SessionSetOption \/ SessionSend \/ SessionConnectionEnds

SessionSpec ==
    SessionInit /\ [][SessionNext]_vars

(***************************************************************************)
(* Properties.                                                             *)
(***************************************************************************)
\* The results is_socket_closed() stands for: the peer closed the connection.
SocketClosedResults ==
    { "eof", "reset" }

ReadHandlers ==
    { "on_read_status", "on_read_headers", "on_read_content_length",
      "on_read_chunk_header", "on_read_chunk_data", "on_read_until_eof" }

\* C1: whatever the completions, restarts, redirects and timer expiries,
\* end() runs at most once and the promise is set at most once.
C1_EndAtMostOnce ==
    hist.ends <= 1 /\ promise.sets <= 1

\* The timeout handler ran with success on a connection already finalized.
C1_Witness ==
    /\ hist.ends = 1 /\ promise.sets = 1
    /\ last.fin /\ last.act = "on_timeout" /\ last.ec = "ok"

\* C2: a started connection eventually has its promise set, given that an
\* armed timeout timer eventually fires. Stated as what makes it so: as long
\* as a started connection has not set its promise, it is not terminal and
\* its timeout timer is armed (so OnTimeout is enabled), and the timer's
\* handler running with success on such a connection makes it terminal and
\* sets the promise.
C2_EventuallyFulfilled ==
    [][/\ (state' # "INIT" /\ promise'.sets = 0)
             => (timeout_timer'.armed /\ ~in_final_state([state |-> state']))
       /\ ( /\ state # "INIT" /\ promise.sets = 0
            /\ last'.act = "on_timeout" /\ last'.ec = "ok" )
             => (state' = "TIMEOUT" /\ promise'.sets = 1)]_vars

\* A connection that was left with no operation pending, after a redirect
\* response it does not follow, was ended by its timeout timer.
C2_Witness ==
    /\ state = "TIMEOUT" /\ promise.sets = 1 /\ ops = << >>
    /\ last.act = "on_timeout" /\ ~last.fin
    /\ is_redirect_code(response.status_code)

\* C3: a terminal state is replaced by EXPIRED or not at all, and EXPIRED is
\* never replaced.
C3_OneWay ==
    [][/\ state \in FinalStates => state' \in { state, "EXPIRED" }
       /\ state = "EXPIRED" => state' = "EXPIRED"]_vars

\* A read handler ran with success on a connection in a terminal state.
C3_Witness ==
    /\ state \in FinalStates
    /\ last.fin /\ last.act \in ReadHandlers /\ last.ec = "ok"

\* C4: once the dispose timer's handler has run with success, the state is
\* EXPIRED.
C4_DisposeExpires ==
    (last.act = "on_dispose_timer" /\ last.ec = "ok") => is_expired(Cur)

\* C5: when a 301, 302 or 303 response has been read to its end and the
\* request has redirect=false, the connection is in SUCCESS and finalized.
C5_RedirectOffSucceeds ==
    ( /\ last.act \in ReadHandlers /\ ~last.fin
      /\ "set_success" \in last.ev
      /\ is_redirect_code(response.status_code)
      /\ ~request.redirect )
    => (state = "SUCCESS" /\ promise.sets = 1)

\* C6: a handler that runs with operation_aborted on a connection that is not
\* in a terminal state changes nothing: no state change, no end(), no error,
\* no restart, no new operation.
C6_AbortedIsNoOp ==
    [][(last'.ec = "aborted" /\ ~in_final_state(Cur)) =>
          /\ UNCHANGED << state, m_is_reused, request, response, stream, wire,
                          dispose_timer, promise, request_buf, response_buf,
                          parser, content_length, raw, hist >>
          /\ timeout_timer'.armed = timeout_timer.armed
          /\ Len(ops') <= Len(ops)
          /\ last'.ev = { }]_vars

\* The handler of a cancelled wait ran with operation_aborted before the
\* connection was terminal.
C6_Witness ==
    last.ec = "aborted" /\ ~last.fin /\ ~in_final_state(Cur)

\* C7: restart() runs at most once; once it has run the connection is not a
\* reused one, and a socket-closed result of the write or of the status read
\* ends it with WRITE_ERROR or READ_STATUS_ERROR.
C7_RestartOnce ==
    /\ hist.restarts <= 1
    /\ hist.restarts = 1 => ~m_is_reused
    /\ ( /\ hist.restarts = 1 /\ "restart" \notin last.ev
         /\ ~last.fin /\ last.ec \in SocketClosedResults
         /\ last.act \in { "on_write", "on_read_status" } )
       => state = (IF last.act = "on_write" THEN "WRITE_ERROR"
                                            ELSE "READ_STATUS_ERROR")

\* After a restart, the write ended with a socket-closed result.
C7_Witness ==
    /\ hist.restarts = 1 /\ "restart" \notin last.ev
    /\ ~last.fin /\ last.ec \in SocketClosedResults
    /\ last.act = "on_write" /\ state = "WRITE_ERROR"

\* C8: when the write or the status read of a connection that is not
\* terminal ends with a socket-closed result, a reused connection restarts
\* (new stream and parser, state RESOLVE, no end()), and one that is not
\* reused ends with WRITE_ERROR or READ_STATUS_ERROR.
C8_ReuseRestart ==
    ( /\ last.act \in { "on_write", "on_read_status" }
      /\ last.ec \in SocketClosedResults /\ ~last.fin )
    => IF last.reused
       THEN /\ state = "RESOLVE" /\ "restart" \in last.ev
            /\ hist.ends = 0 /\ promise.sets = 0
            /\ ~stream.open /\ parser = ParserNew
       ELSE /\ state = (IF last.act = "on_write" THEN "WRITE_ERROR"
                                                 ELSE "READ_STATUS_ERROR")
            /\ promise.sets = 1

\* A connection that restarted went on to SUCCESS.
C8_Witness ==
    hist.restarts = 1 /\ state = "SUCCESS" /\ promise.sets = 1

\* C9: with redirect=true, a 301, 302 or 303 response never ends in SUCCESS:
\* the connection follows the redirect (state RESOLVE, no end()) or ends
\* with REDIRECT_EXHAUSTED or REDIRECT_ERROR.
C9_RedirectNeverSuccess ==
    /\ (state = "SUCCESS" /\ request.redirect)
          => ~is_redirect_code(response.status_code)
    /\ ("perform_redirect" \in last.ev /\ ~last.fin)
          => (state = "RESOLVE" /\ promise.sets = 0)
    /\ ( /\ "set_success" \in last.ev /\ ~last.fin /\ request.redirect
         /\ is_redirect_code(response.status_code) )
          => state \in { "REDIRECT_EXHAUSTED", "REDIRECT_ERROR" }

\* A redirect was followed: the counter was below the limit and the response
\* had a Location header.
C9_Witness ==
    /\ "perform_redirect" \in last.ev /\ ~last.fin
    /\ state = "RESOLVE" /\ response.redirect_count >= 1

\* C10: the response's redirect counter never exceeds the request's
\* redirect_count.
C10_RedirectsBounded ==
    response.redirect_count <= request.redirect_count

\* The chain was followed up to the limit, and the next redirect refused.
C10_Witness ==
    /\ response.redirect_count = request.redirect_count
    /\ request.redirect_count >= 1
    /\ state = "REDIRECT_EXHAUSTED"

\* What holds right after a step that read a redirect response to its end on
\* a connection that follows redirects and was not terminal: the response
\* is still the redirect one, so the redirect was not followed.
RedirectRefused ==
    /\ "set_success" \in last.ev /\ ~last.fin
    /\ request.redirect /\ is_redirect_code(response.status_code)

\* C11: with redirect=true, a redirect response read when the redirect
\* counter has reached the request's redirect_count ends the connection with
\* REDIRECT_EXHAUSTED, with or without a Location header, and neither a
\* resolve nor a new stream is started.
C11_RedirectExhausted ==
    (RedirectRefused /\ response.redirect_count >= request.redirect_count)
    => /\ state = "REDIRECT_EXHAUSTED"
       /\ response.error.kind = "REDIRECT_EXHAUSTED"
       /\ promise.sets = 1
       /\ "resolve" \notin last.ev /\ "perform_redirect" \notin last.ev
       /\ Pending("resolve") = { }

\* The first redirect response of a request with redirect_count = 0, without
\* a Location header.
C11_Witness ==
    /\ RedirectRefused /\ state = "REDIRECT_EXHAUSTED"
    /\ request.redirect_count = 0 /\ ~response.headers.loc

\* C12 (as stated): with redirect=true, a redirect response without a
\* Location header ends the connection with REDIRECT_ERROR.
C12_NoLocationIsError ==
    (RedirectRefused /\ ~response.headers.loc)
    => state = "REDIRECT_ERROR"

\* C12 (amended): with redirect=true and the redirect counter below the
\* request's redirect_count, a redirect response without a Location header
\* ends the connection with REDIRECT_ERROR; with the counter at the limit it
\* ends with REDIRECT_EXHAUSTED.
C12_NoLocationBelowLimit ==
    (RedirectRefused /\ ~response.headers.loc)
    => IF response.redirect_count < request.redirect_count
       THEN /\ state = "REDIRECT_ERROR"
            /\ response.error.kind = "REDIRECT_ERROR"
            /\ promise.sets = 1
       ELSE state = "REDIRECT_EXHAUSTED"

\* A redirect response without a Location header, the counter below the limit.
C12_Witness ==
    /\ RedirectRefused /\ ~response.headers.loc
    /\ response.redirect_count < request.redirect_count
    /\ state = "REDIRECT_ERROR"

\* C13: when the timeout timer's handler runs with success on a connection
\* that is not terminal, the state becomes TIMEOUT, the response's error has
\* kind TIMEOUT, and end() runs: the future holds that error.
C13_TimeoutFinalizes ==
    (last.act = "on_timeout" /\ last.ec = "ok" /\ ~last.fin)
    => /\ state = "TIMEOUT"
       /\ response.error.kind = "TIMEOUT"
       /\ "end" \in last.ev
       /\ promise.sets = 1 /\ promise.error = "TIMEOUT"

\* The timeout ended a connection whose request has throw_on_error set.
C13_Witness ==
    /\ last.act = "on_timeout" /\ last.ec = "ok" /\ ~last.fin
    /\ state = "TIMEOUT" /\ promise.kind = "exception"

\* C14: the timeout timer is armed once, by start() on the connection as
\* constructed; a restart does not arm it again.
C14_TimeoutArmedOnce ==
    /\ "setup_timeout" \in last.ev => (last.act = "start" /\ "restart" \notin last.ev)
    /\ hist.ends = 0 => timeout_timer.cancelled = 0

\* C15: right after end(), the stream is closed if keep_alive is off, and
\* also if keep_alive is on and the response has Connection: close.
C15_StreamClosedAtEnd ==
    "end" \in last.ev
    => /\ ~request.keep_alive => ~stream.open
       /\ (request.keep_alive /\ response.headers.close) => ~stream.open

\* C16: the promise is set with the response's error kind, the kind of the
\* terminal state; with an exception if throw_on_error is set and the state
\* is an error, with the response as value otherwise.
C16_ThrowOnError ==
    promise.sets >= 1
    => /\ state \in ErrorStates \cup { "SUCCESS" }
       /\ promise.error = state
       /\ promise.kind = IF request.throw_on_error /\ state \in ErrorStates
                         THEN "exception" ELSE "value"

\* A redirect error reported as an exception.
C16_Witness ==
    /\ promise.sets = 1 /\ promise.kind = "exception"
    /\ state = "REDIRECT_ERROR" /\ request.throw_on_error

\* C17: the handler of every pending operation was wrapped by the strand.
C17_AllThroughStrand ==
    \A i \in 1..Len(ops) : ops[i].strand

\* C18: when the promise is set the dispose timer is not armed yet.
C18_FutureBeforeDispose ==
    promise.sets >= 1 => ~promise.dispose_armed

\* C19: when the read of a body declared by Content-Length: N completes with
\* success on a connection that is not terminal, for a response that is not
\* a redirect, the connection is in SUCCESS, finalized, and the raw body is
\* the N body bytes.
C19_ContentLengthBody ==
    ( /\ last.act = "on_read_content_length" /\ last.ec = "ok" /\ ~last.fin
      /\ "perform_redirect" \notin last.ev
      /\ ~is_redirect_code(response.status_code) )
    => /\ state = "SUCCESS" /\ promise.sets = 1
       /\ response.raw = Bytes(response.headers.cl)

\* C20: whenever chunk data is requested from the stream, the parser is at
\* the start of a chunk's data and content_length holds that chunk's size.
C20_ChunkLoop ==
    (Pending("read_chunk_data") # { } /\ ~in_final_state(Cur))
    => (parser.phase = "chunk_data" /\ parser.left = content_length)

\* C21: when the body read of a response with Content-Length: 0 that is not
\* a redirect completes with success on a connection that is not terminal,
\* the connection is in SUCCESS, finalized, with an empty raw body.
C21_ZeroContentLength ==
    ( /\ last.act = "on_read_content_length" /\ last.ec = "ok" /\ ~last.fin
      /\ response.headers.cl = 0
      /\ "perform_redirect" \notin last.ev
      /\ ~is_redirect_code(response.status_code) )
    => (state = "SUCCESS" /\ response.raw = << >> /\ promise.sets = 1)

\* C22: in read-to-EOF mode, when the end of the stream arrives on a
\* connection that is not terminal, for a response that is not a redirect,
\* the connection ends in SUCCESS, whatever the length of the body.
C22_EofBodySucceeds ==
    ( /\ last.act = "on_read_until_eof" /\ last.ec = "eof" /\ ~last.fin
      /\ "perform_redirect" \notin last.ev
      /\ ~is_redirect_code(response.status_code) )
    => (state = "SUCCESS" /\ promise.sets = 1)

\* C23: on a connection that is not terminal, a body read of declared length
\* that ends with the end of the stream is an error of its phase exactly when
\* fewer bytes are buffered than the length (READ_CONTENT_LENGTH_ERROR for a
\* Content-Length body, READ_CHUNK_DATA_ERROR for chunk data); with enough
\* bytes buffered the handler does what it does for a read that succeeded.
C23_EofShortIsError ==
    ~in_final_state(Cur) =>
        /\ \A i \in Pending("read_content_length") :
              \A o \in Outcomes(ops[i]) :
                 LET c == Completed(i, o)
                     short == Len(c.response_buf) < c.content_length
                     r == on_read_content_length(c, "eof")
                 IN  /\ o.ec = "eof" =>
                           (r.state = "READ_CONTENT_LENGTH_ERROR" <=> short)
                     /\ (o.ec \in { "ok", "eof" } /\ ~short) =>
                           r = on_read_content_length(c, "ok")
        /\ \A i \in Pending("read_chunk_data") :
              \A o \in Outcomes(ops[i]) :
                 LET c == Completed(i, o)
                     short == Len(c.response_buf) < c.content_length
                     r == on_read_chunk_data(c, "eof")
                 IN  /\ o.ec = "eof" =>
                           (r.state = "READ_CHUNK_DATA_ERROR" <=> short)
                     /\ (o.ec \in { "ok", "eof" } /\ ~short) =>
                           r = on_read_chunk_data(c, "ok")

C23_Witness ==
    /\ last.act = "on_read_content_length" /\ last.ec = "eof" /\ ~last.fin
    /\ state = "READ_CONTENT_LENGTH_ERROR"
    /\ Len(response_buf) < content_length

\* C24: on a connection that is not terminal, a header read that ends with
\* the end of the stream is READ_HEADERS_ERROR exactly when the buffer is
\* empty or the parser fails on it, and then the connection is finalized
\* once; otherwise the handler goes on to the body as after a read that
\* succeeded.
C24_EofInHeaders ==
    ~in_final_state(Cur) =>
        \A i \in Pending("read_headers") :
           \A o \in Outcomes(ops[i]) :
              o.ec \in { "ok", "eof" } =>
                 LET c == Completed(i, o)
                     bad == Len(c.response_buf) = 0 \/ ~execute_parser(c).ok
                     r == on_read_headers(c, "eof")
                 IN  /\ r.state = "READ_HEADERS_ERROR" <=> bad
                     /\ bad => (r.hist.ends = hist.ends + 1 /\ r.promise.sets = 1)
                     /\ ~bad => r = on_read_headers(c, "ok")

C24_Witness ==
    /\ last.act = "on_read_headers" /\ last.ec = "eof" /\ ~last.fin
    /\ state = "READ_HEADERS_ERROR" /\ response.error.msg = "no headers"
    /\ hist.ends = 1 /\ promise.sets = 1

\* C25: on a connection that is not terminal, whose response is not a
\* redirect, a chunk header read that ends with the end of the stream ends
\* the connection in SUCCESS with the body accumulated so far; one that ends
\* with any other transport error ends it in READ_CHUNK_HEADER_ERROR.
C25_EofAtChunkHeader ==
    (~in_final_state(Cur) /\ ~is_redirect_code(response.status_code)) =>
        \A i \in Pending("read_chunk_header") :
           \A o \in Outcomes(ops[i]) :
              LET r == on_read_chunk_header(Completed(i, o), o.ec)
              IN  /\ o.ec = "eof" =>
                        /\ r.state = "SUCCESS"
                        /\ r.response.raw = raw
                        /\ r.promise.sets = 1
                  /\ o.ec \in { "reset", "other" } =>
                        /\ r.state = "READ_CHUNK_HEADER_ERROR"
                        /\ r.response.error.kind = "READ_CHUNK_HEADER_ERROR"

C25_Witness ==
    /\ last.act = "on_read_chunk_header" /\ last.ec = "eof" /\ ~last.fin
    /\ state = "SUCCESS" /\ Len(response.raw) > 0

\* The error kind of each phase.
PhaseError ==
    [on_resolve |-> "RESOLVE_ERROR", on_connect |-> "CONNECT_ERROR",
     on_handshake |-> "HANDSHAKE_ERROR", on_write |-> "WRITE_ERROR",
     on_read_status |-> "READ_STATUS_ERROR",
     on_read_headers |-> "READ_HEADERS_ERROR",
     on_read_content_length |-> "READ_CONTENT_LENGTH_ERROR",
     on_read_chunk_header |-> "READ_CHUNK_HEADER_ERROR",
     on_read_chunk_data |-> "READ_CHUNK_DATA_ERROR",
     on_read_until_eof |-> "READ_UNTIL_EOF_ERROR"]

\* C26: when a handler runs on a connection that is not terminal with a
\* transport error that is neither operation-aborted, nor a closed socket
\* that a reused connection retries, nor a tolerated end of stream, the
\* connection ends in the error kind of the handler's phase, and the
\* response's error has that kind and the message of the error code.
C26_PhaseErrorKind ==
    ( /\ last.act \in DOMAIN PhaseError /\ ~last.fin
      /\ \/ last.ec = "other"
         \/ /\ last.ec = "reset"
            /\ ~(last.reused /\ last.act \in { "on_write", "on_read_status" })
         \/ /\ last.ec = "eof"
            /\ last.act = "on_read_status" /\ ~last.reused )
    => /\ state = PhaseError[last.act]
       /\ response.error = [kind |-> state, msg |-> last.ec]
       /\ promise.sets = 1 /\ promise.error = state

C26_Witness ==
    /\ last.act = "on_connect" /\ last.ec = "other" /\ ~last.fin
    /\ state = "CONNECT_ERROR" /\ response.error.kind = "CONNECT_ERROR"

\* C27: a fresh connection (not a reused one, never restarted) that has
\* followed k >= 1 redirects has redirect_count = k and a redirects chain of
\* exactly k + 1 entries: the response that redirected first, then one entry
\* per target in the order visited; in particular when it ends in SUCCESS.
C27_RedirectChain ==
    (~m_is_reused /\ hist.restarts = 0) =>
        LET k == response.redirect_count
            chain == response.redirects
        IN  IF k = 0
            THEN chain = << >>
            ELSE /\ Len(chain) = k + 1
                 /\ is_redirect_code(chain[1].status_code)
                 /\ \A j \in 1..(k + 1) : chain[j].uri = j - 1
                 /\ request.uri = k

C27_Witness ==
    /\ ~m_is_reused /\ hist.restarts = 0
    /\ state = "SUCCESS" /\ promise.sets = 1
    /\ response.redirect_count = MaxRedirects
    /\ Len(response.redirects) = MaxRedirects + 1

\* C28: when the header read has parsed the header block on a connection
\* that is not terminal, the body mode is chosen by precedence: a
\* Content-Length header gives READ_CONTENT_LENGTH, whether or not the
\* chunked transfer encoding is declared too; without it, the chunked
\* transfer encoding gives the chunk loop; without both, READ_UNTIL_EOF.
C28_BodyModePrecedence ==
    ( /\ last.act = "on_read_headers" /\ ~last.fin
      /\ last.ec \in { "ok", "eof" }
      /\ parser.phase \notin { "status", "headers", "error" } )
    => LET lengthOps == Pending("read_content_length")
           chunkOps == Pending("read_chunk_header") \cup Pending("read_chunk_data")
           eofOps == Pending("read_until_eof")
       IN  IF response.headers.cl >= 0
           THEN /\ state = "READ_CONTENT_LENGTH"
                /\ lengthOps # { } /\ chunkOps = { } /\ eofOps = { }
           ELSE IF response.headers.chunked
           THEN /\ state \in { "READ_CHUNK_HEADER", "READ_CHUNK_DATA" }
                      \/ in_final_state(Cur)
                /\ lengthOps = { } /\ eofOps = { }
           ELSE /\ state = "READ_UNTIL_EOF"
                /\ eofOps # { } /\ lengthOps = { } /\ chunkOps = { }

C28_Witness ==
    /\ last.act = "on_read_headers" /\ ~last.fin
    /\ response.headers.cl >= 0 /\ response.headers.chunked
    /\ state = "READ_CONTENT_LENGTH"
    /\ Pending("read_content_length") # { }

\* C29: when a final_callback is configured, the step that finalizes the
\* connection has called it once, before the promise was set, with the
\* response as the future delivers it: its error and the whole accumulated
\* raw body already in it.
C29_FinalCallbackResponse ==
    (request.final_callback /\ "end" \in last.ev)
    => /\ hist.final_calls = 1
       /\ hist.final_seen.sets = 0 /\ promise.sets = 1
       /\ hist.final_seen.error = response.error.kind
       /\ hist.final_seen.raw_len = Len(response.raw)

\* C30: for every string s that contains a ':', auth_t::from_string(s) is a
\* value whose login is the text before the first ':' (it holds no ':') and
\* whose password is everything after it, and to_string of that value is s.
C30_AuthRoundTrip ==
    ((\E i \in 1..Len(auth_in) : auth_in[i] = ":") /\ auth.status # "none")
    => /\ auth.status = "value"
       /\ \A i \in 1..Len(value(auth.first)) : value(auth.first)[i] # ":"
       /\ auth_in = value(auth.first) \o << ":" >> \o value(auth.second)
       /\ auth_out.set => auth_out.str = auth_in

C30_Witness ==
    /\ auth_in = << "a", ":", "b", ":", "c" >>
    /\ value(auth.first) = << "a" >>
    /\ value(auth.second) = << "b", ":", "c" >>
    /\ auth_out.set /\ auth_out.str = auth_in

\* C31: auth_t::from_string of a string without ':' throws and gives no auth
\* value; of a string with at least one ':' it gives a value.
C31_AuthMalformedThrows ==
    auth.status # "none" =>
        IF \A i \in 1..Len(auth_in) : auth_in[i] # ":"
        THEN auth = Thrown /\ ~auth_out.set
        ELSE auth.status = "value"

C31_Witness ==
    /\ auth_in = << "a", "b" >>
    /\ auth.status = "thrown"

\* C32: a step taken when the connection is terminal makes no protocol
\* progress: it issues no network operation (a handler only uses up its
\* own), follows no redirect, leaves the response's redirect counter alone,
\* and gives no more data to the raw body or to the body callback.
C32_NoProgressWhenTerminal ==
    [][in_final_state(Cur) =>
          /\ Len(ops') <= Len(ops)
                - (IF last'.act \in DOMAIN PhaseError THEN 1 ELSE 0)
          /\ "perform_redirect" \notin last'.ev
          /\ response'.redirect_count = response.redirect_count
          /\ Len(response'.redirects) = Len(response.redirects)
          /\ raw' = raw
          /\ hist'.body_calls = hist.body_calls]_vars

\* C33: when write() is issued by a connection that has restarted, the
\* request buffer holds exactly one serialized request and the response
\* buffer holds no bytes.
C33_BuffersCleanAfterRestart ==
    ("write" \in last.ev /\ ~last.fin /\ hist.restarts > 0)
    => (request_buf = 1 /\ response_buf = << >>)

\* C34: the step in which a connection that is not terminal follows a
\* redirect leaves it in RESOLVE with a resolve pending, both I/O buffers
\* empty, content_length 0, an empty raw body, a new unconnected stream and
\* a new parser; the new response is empty but for the redirect counter and
\* the redirects chain.
C34_RedirectResetsScratch ==
    ("perform_redirect" \in last.ev /\ ~last.fin)
    => /\ state = "RESOLVE" /\ Pending("resolve") # { }
       /\ request_buf = 0 /\ response_buf = << >>
       /\ content_length = 0 /\ raw = << >>
       /\ parser = ParserNew
       /\ stream = [open |-> FALSE, answered |-> FALSE] /\ wire = << >>
       /\ response.redirect_count >= 1 /\ response.redirects # << >>
       /\ response = [response_t(response.redirects) EXCEPT
                         !.redirect_count = response.redirect_count]

C34_Witness ==
    /\ "perform_redirect" \in last.ev /\ ~last.fin
    /\ last.act = "on_read_content_length"
    /\ state = "RESOLVE" /\ content_length = 0 /\ response_buf = << >>

\* C35: start() on a fresh connection enters RESOLVE; on a reused connection
\* whose stream is open it enters WRITE with the write as the only operation
\* issued; on a reused connection whose stream is closed it restarts and
\* enters RESOLVE with the reused flag cleared. A connection that is not (or
\* no longer) a reused one writes a request only from the handshake's
\* handler run with success, on a stream that is connected.
C35_StartPhase ==
    [][/\ (state = "INIT" /\ last'.act = "start") =>
             IF ~m_is_reused
             THEN /\ state' = "RESOLVE" /\ Pending("resolve")' # { }
                  /\ last'.ev \cap { "write", "restart" } = { }
             ELSE IF stream.open
             THEN /\ state' = "WRITE" /\ m_is_reused'
                  /\ Len(ops') = 1 /\ ops'[1].kind = "write"
                  /\ last'.ev \cap { "resolve", "restart" } = { }
             ELSE /\ state' = "RESOLVE" /\ ~m_is_reused'
                  /\ "restart" \in last'.ev /\ "write" \notin last'.ev
                  /\ Pending("resolve")' # { }
       /\ ("write" \in last'.ev /\ ~m_is_reused') =>
             /\ last'.act = "on_handshake" /\ last'.ec = "ok"
             /\ stream'.open]_vars

C35_Witness ==
    /\ last.act = "start" /\ "restart" \in last.ev
    /\ state = "RESOLVE" /\ ~m_is_reused /\ hist.restarts = 1

\* C36: a connection never has more than one network operation outstanding;
\* start() issues the first one, and after it only the handler of the
\* operation that completed issues another: the timers' handlers issue none.
C36_OneOutstandingOperation ==
    [][/\ Len(ops') <= 1
       /\ last'.act = "start" => ops = << >>
       /\ last'.act \in DOMAIN PhaseError => Len(ops) = 1
       /\ last'.act \notin (DOMAIN PhaseError \cup { "start" }) =>
             /\ Len(ops') <= Len(ops)
             /\ \A i \in 1..Len(ops') : ops'[i].kind = ops[i].kind]_vars

C36_Witness ==
    /\ last.act = "on_read_headers" /\ "perform_redirect" \in last.ev
    /\ response.redirects[1].status_code = 301
    /\ Len(ops) = 1 /\ ops[1].kind = "resolve"

\* C37: with a body callback configured nothing is appended to the raw body
\* and the delivered response's raw body is empty; the body bytes of a
\* response framed by Content-Length that ends in SUCCESS without a redirect
\* have all been given to the callback; the end-of-stream call is made at
\* most once, exactly once when the connection is finalized, with the error
\* the future's response carries.
C37_BodyCallback ==
    request.body_callback =>
        /\ raw = << >> /\ response.raw = << >>
        /\ hist.eos_calls = hist.ends /\ hist.eos_calls <= 1
        /\ promise.sets >= 1 =>
              (hist.eos_calls = 1 /\ hist.eos_error = promise.error)
        /\ ( /\ "end" \in last.ev /\ state = "SUCCESS" /\ ~last.fin
             /\ response.redirect_count = 0 /\ hist.restarts = 0
             /\ response.headers.cl >= 0 /\ ~response.headers.chunked )
           => hist.body_bytes = response.headers.cl

C37_Witness ==
    /\ request.body_callback /\ state = "SUCCESS" /\ "end" \in last.ev
    /\ response.headers.cl = MaxBody /\ hist.body_bytes = MaxBody
    /\ hist.eos_calls = 1 /\ hist.eos_error = "SUCCESS"

\* C38: when the timeout handler runs with success on a connection that is
\* terminal, the state, the response, the promise and the finalization
\* history stay as they are and nothing is armed or issued; with keep_alive
\* on the stream and its operations are left alone, with keep_alive off the
\* stream is closed.
C38_LateTimeout ==
    [][(in_final_state(Cur) /\ last'.act = "on_timeout" /\ last'.ec = "ok") =>
          /\ state' = state /\ response' = response /\ promise' = promise
          /\ hist' = hist /\ raw' = raw /\ last'.ev = { }
          /\ dispose_timer' = dispose_timer /\ ~timeout_timer'.armed
          /\ Len(ops') = Len(ops)
          /\ IF request.keep_alive
             THEN stream' = stream /\ ops' = ops
             ELSE ~stream'.open]_vars

C38_Witness ==
    /\ last.act = "on_timeout" /\ last.ec = "ok" /\ last.fin
    /\ state = "SUCCESS" /\ ~request.keep_alive /\ ~stream.open

\* C39: every Send that returns has built its connection from a prepared
\* request.
C39_SendPrepares ==
    session.sent.status = "returned" =>
        (session.sent.prepared /\ session.connection.request.prepared)

\* C40: a Send called when the previous connection's future holds an
\* exception returns, with a new connection built for the session's request
\* and started, and with that connection's future.
C40_SendAfterFailure ==
    (session.sent.status # "none" /\ session.sent.prev = "exception") =>
        /\ session.sent.status = "returned"
        /\ session.connection.outcome = "pending"
        /\ session.connection.request = session.request
        /\ session.sent.future = session.connection.id

====
